---- MODULE Spec2Model ----
(***************************************************************************)
(* Model of nose_xunitmp.XunitMP (src/nose_xunitmp.py): a nose plugin that *)
(* collects the outcome of every test run by several worker processes in   *)
(* a multiprocessing.Manager list (errorlist) and dict (stats), and writes *)
(* one xunit XML report from them in the coordinating process.             *)
(*                                                                         *)
(* Process 0 is the coordinating process; processes 1..NumWorkers are the  *)
(* worker subprocesses.  Every process owns one plugin instance.  Each     *)
(* call through a manager proxy (dict __getitem__, dict __setitem__, list  *)
(* append) is one atomic step served by the manager process; the Python    *)
(* statement  self.stats[k] += 1  is two such calls.                       *)
(***************************************************************************)
EXTENDS Integers, Sequences, FiniteSets, TLC

VARIABLES
    enabled,     \* self.enabled, the same option in every process
    cfgState,    \* per process: config._nose_xunitmp_state (0: attribute absent)
    handle,      \* per process: the store self.errorlist/self.stats refer to (0: unset)
    configured,  \* per process: configure() has been called
    nreconf,     \* configure() calls repeated on an already configured instance
    stores,      \* the manager-held stores allocated so far: [stats, errorlist]
    joined,      \* every worker process has finished and been joined
    pc,          \* per worker: position inside the current handler call
                 \* ("absent": the run does not start this worker)
    cur,         \* per worker: locals of the current handler call
    timer,       \* per worker: self._timer (NoTimer: attribute absent)
    clock,       \* time(), in ticks
    ntests,      \* the number of tests the engine runs in this run
    nextId,      \* id of the next test the engine hands out
    delivered,   \* per test id: the outcome event the engine delivered
    built,       \* per worker: the fragments it built, in emission order
    rpc,         \* position of the coordinating process inside report()
    nreports,    \* report() calls started so far
    pre,         \* the stores, the file and the stream as report() found them
    failedAt,    \* the statement of report() that raised ("none": nothing raised)
    file,        \* the destination file: what report() has written to it
    stream       \* lines report() wrote to the status stream

vars == <<enabled, cfgState, handle, configured, nreconf, stores, joined, pc, cur, timer, clock,
          ntests, nextId, delivered, built, rpc, nreports, pre, failedAt, file, stream>>

(***************************************************************************)
(* Bounds                                                                  *)
(***************************************************************************)
NumWorkers == 2
MaxTests == 2
MaxLongTests == 3
MaxClock == 2
MaxTimedTests == 1
MaxReconfigure == 1
MaxReports == 2
\* resolution of the clock: ticks in one second
TicksPerSecond == 2

(***************************************************************************)
(* Program constants                                                       *)
(***************************************************************************)
\* timer value standing for an instance without a _timer attribute
NoTimer == -1

Workers == 1 .. NumWorkers
Procs == 0 .. NumWorkers

\* the keys of the manager dict created by configure()
CounterKeys == {"errors", "failures", "passes", "skipped"}

\* exception classes a test can raise and the engine passes as err[0]
ExcTypes == {"SkipTest", "SkipTestSubclass", "ValueError"}
FailTypes == {"AssertionError"}

\* self.encoding, as inherited from the base plugin
encoding == "UTF-8"

\* config.verbosity values
Verbosities == {1, 2}

(***************************************************************************)
(* The manager proxies                                                     *)
(***************************************************************************)
\* manager.dict(errors=0, failures=0, passes=0, skipped=0) and manager.list()
NewStore == [stats |-> [k \in CounterKeys |-> 0], errorlist |-> <<>>]

\* DictProxy.__getitem__: one request served by the manager
GetItem(d, k) == d[k]

\* DictProxy.__setitem__: one request served by the manager; writes key k only
SetItem(d, k, v) == [x \in (DOMAIN d) \cup {k} |-> IF x = k THEN v ELSE d[x]]

\* a list whose append writes the last slot instead of adding one
ListAppendOverwrite(l, item) ==
    IF l = <<>> THEN <<item>> ELSE [l EXCEPT ![Len(l)] = item]

\* a list whose append inserts at the front
ListAppendFront(l, item) == <<item>> \o l

\* ListProxy.append: one request served by the manager
ListAppend(l, item) == Append(l, item)

(***************************************************************************)
(* Pure helpers                                                            *)
(***************************************************************************)
\* issubclass(err[0], SkipTest)
IsSkipTest(exc) == exc \in {"SkipTest", "SkipTestSubclass"}

\* addError: the name of the child element
ErrorType(exc) == IF IsSkipTest(exc) THEN "skipped" ELSE "error"

\* an addError that counts every exception as an error
ErrorKeyNoSkip(exc) == "errors"

\* addError: the counter it increments
ErrorKey(exc) == IF IsSkipTest(exc) THEN "skipped" ELSE "errors"

\* hasattr(self, '_timer')
HasTimer(w) == timer[w] # NoTimer

\* self._timeTaken(): time() - self._timer, or 0.0 when no timer was recorded
TimeTaken(w) == IF HasTimer(w) THEN clock - timer[w] ELSE 0

\* a start that is always the current time
StartedNow(w) == clock

\* started = self._timer if hasattr(self, '_timer') else time()
Started(w) == IF HasTimer(w) THEN timer[w] ELSE clock

\* datetime.fromtimestamp(t).strftime('%x %X'): second granularity
StrfTime(t) == t \div TicksPerSecond

\* the <testcase> element a handler builds: classname/name come from id,
\* type is the name of the child element ("none": no child element)
Fragment(id, type, errtype, taken, started) ==
    [id |-> id, type |-> type, errtype |-> errtype, taken |-> taken,
     started |-> StrfTime(started), ended |-> StrfTime(started + taken)]

NoCall == [handler |-> "none", exc |-> "none", id |-> 0, at |-> 0, taken |-> 0,
           key |-> "none", type |-> "none", tmp |-> 0, started |-> 0]

NoFile == [open |-> FALSE, header |-> <<>>, body |-> <<>>, closing |-> FALSE]

(***************************************************************************)
(* Initial state: nothing configured, no worker spawned, no file written   *)
(***************************************************************************)
\* a run of n tests on the first k worker processes
Run(n, k) ==
    /\ enabled \in BOOLEAN
    /\ cfgState = [p \in Procs |-> 0]
    /\ handle = [p \in Procs |-> 0]
    /\ configured = [p \in Procs |-> FALSE]
    /\ nreconf = 0
    /\ stores = <<>>
    /\ joined = FALSE
    /\ pc = [w \in Workers |-> IF w <= k THEN "idle" ELSE "absent"]
    /\ cur = [w \in Workers |-> NoCall]
    /\ timer = [w \in Workers |-> NoTimer]
    /\ clock = 0
    /\ ntests = n
    /\ nextId = 1
    /\ delivered = <<>>
    /\ built = [w \in Workers |-> <<>>]
    /\ rpc = "idle"
    /\ nreports = 0
    /\ pre = [stores |-> <<>>, file |-> NoFile, stream |-> <<>>]
    /\ failedAt = "none"
    /\ file = NoFile
    /\ stream = <<>>

\* a run of MaxTests tests
Init == Run(MaxTests, NumWorkers)

\* a run of MaxLongTests tests
InitLong == Run(MaxLongTests, NumWorkers)

\* a run of MaxTimedTests tests
InitTimed == Run(MaxTimedTests, NumWorkers)

\* a run of MaxLongTests tests on a single worker process
InitSingle == Run(MaxLongTests, 1)

(***************************************************************************)
(* configure(): attach to the published store or allocate and publish one  *)
(***************************************************************************)
\* a configure() that never looks for the published slot
AttachAlways(slot) == <<Len(stores) + 1, Append(stores, NewStore)>>

\* the store configure() binds self.errorlist/self.stats to, given the slot
\* it found on its config object: <<index, stores after the call>>
Attach(slot) ==
    IF slot = 0
    THEN <<Len(stores) + 1, Append(stores, NewStore)>>
    ELSE <<slot, stores>>

\* the slot configure() finds on the config object of process p: a worker
\* process starts with a pickled copy of the coordinating process's config
Slot(p) == IF configured[p] THEN cfgState[p] ELSE cfgState[0]

Configure(p) ==
    /\ configured[p] => nreconf < MaxReconfigure
    /\ ~joined
    /\ p # 0 => (configured[0] /\ pc[p] = "idle")
    /\ configured' = [configured EXCEPT ![p] = TRUE]
    /\ nreconf' = IF configured[p] THEN nreconf + 1 ELSE nreconf
    /\ IF enabled
       THEN LET a == Attach(Slot(p)) IN
            /\ stores' = a[2]
            /\ cfgState' = [cfgState EXCEPT ![p] = a[1]]
            /\ handle' = [handle EXCEPT ![p] = a[1]]
       ELSE /\ cfgState' = [cfgState EXCEPT ![p] = Slot(p)]
            /\ UNCHANGED <<stores, handle>>
    /\ UNCHANGED <<enabled, joined, pc, cur, timer, clock, ntests, nextId, delivered,
                   built, rpc, pre, nreports, failedAt, file, stream>>

\* every worker has run its share of the tests; the coordinating process
\* joins them, and no handler is called any more
Join ==
    /\ ~joined
    /\ configured[0]
    /\ \A w \in Workers : pc[w] = "absent" \/ (configured[w] /\ pc[w] = "idle")
    /\ joined' = TRUE
    /\ UNCHANGED <<enabled, cfgState, handle, configured, nreconf, stores, pc, cur,
                   timer, clock, ntests, nextId, delivered, built, rpc, nreports, pre,
                   failedAt, file, stream>>

\* time passes
Tick ==
    /\ clock < MaxClock
    /\ clock' = clock + 1
    /\ UNCHANGED <<enabled, cfgState, handle, configured, nreconf, stores, joined, pc, cur, timer,
                   ntests, nextId, delivered, built, rpc, nreports, pre, failedAt, file,
                   stream>>

\* the engine is about to run a test in worker w: the timer is recorded
BeforeTest(w) ==
    /\ ~joined /\ pc[w] = "idle" /\ handle[w] # 0
    /\ nextId <= ntests
    /\ timer[w] # clock
    /\ timer' = [timer EXCEPT ![w] = clock]
    /\ UNCHANGED <<enabled, cfgState, handle, configured, nreconf, stores, joined, pc, cur, clock,
                   ntests, nextId, delivered, built, rpc, nreports, pre, failedAt, file,
                   stream>>

(***************************************************************************)
(* The three handlers.  Each is entered by the engine with the next test,  *)
(* computes taken and the counter it will increment, then performs the     *)
(* proxy requests that read the counter and write it back plus one, reads  *)
(* the start time in its own process, and performs the append request.     *)
(***************************************************************************)
\* the locals of a handler call entered by worker w
Call(w, handler, exc, key, type) ==
    [handler |-> handler, exc |-> exc, id |-> nextId, at |-> clock,
     taken |-> TimeTaken(w), key |-> key, type |-> type, tmp |-> 0, started |-> 0]

\* the engine may call a handler of worker w
Callable(w) ==
    /\ ~joined /\ pc[w] = "idle" /\ handle[w] # 0
    /\ nextId <= ntests

\* the outcome event the engine delivers
Event(w, handler, exc) == [id |-> nextId, worker |-> w, handler |-> handler, exc |-> exc]

addSuccess(w) ==
    /\ Callable(w)
    /\ cur' = [cur EXCEPT ![w] = Call(w, "addSuccess", "none", "passes", "none")]
    /\ delivered' = Append(delivered, Event(w, "addSuccess", "none"))
    /\ nextId' = nextId + 1
    /\ pc' = [pc EXCEPT ![w] = "get"]
    /\ UNCHANGED <<enabled, cfgState, handle, configured, nreconf, stores, joined,
                   timer, clock, ntests, built, rpc, nreports, pre, failedAt, file,
                   stream>>

addFailure(w) ==
    /\ Callable(w)
    /\ \E exc \in FailTypes :
          /\ cur' = [cur EXCEPT ![w] = Call(w, "addFailure", exc, "failures", "failure")]
          /\ delivered' = Append(delivered, Event(w, "addFailure", exc))
    /\ nextId' = nextId + 1
    /\ pc' = [pc EXCEPT ![w] = "get"]
    /\ UNCHANGED <<enabled, cfgState, handle, configured, nreconf, stores, joined,
                   timer, clock, ntests, built, rpc, nreports, pre, failedAt, file,
                   stream>>

addError(w) ==
    /\ Callable(w)
    /\ \E exc \in ExcTypes :
          /\ cur' = [cur EXCEPT ![w] = Call(w, "addError", exc, ErrorKey(exc),
                                            ErrorType(exc))]
          /\ delivered' = Append(delivered, Event(w, "addError", exc))
    /\ nextId' = nextId + 1
    /\ pc' = [pc EXCEPT ![w] = "get"]
    /\ UNCHANGED <<enabled, cfgState, handle, configured, nreconf, stores, joined,
                   timer, clock, ntests, built, rpc, nreports, pre, failedAt, file,
                   stream>>

\* self.stats[key] += 1, first half: tmp = self.stats[key]
StatsGetItem(w) ==
    /\ pc[w] = "get"
    /\ cur' = [cur EXCEPT ![w].tmp = GetItem(stores[handle[w]].stats, cur[w].key)]
    /\ pc' = [pc EXCEPT ![w] = "set"]
    /\ UNCHANGED <<enabled, cfgState, handle, configured, nreconf, stores, joined, timer, clock,
                   ntests, nextId, delivered, built, rpc, nreports, pre, failedAt, file,
                   stream>>

\* a write-back that never reaches the store
StatsSetItemDropped(w) ==
    /\ pc[w] = "set"
    /\ pc' = [pc EXCEPT ![w] = "started"]
    /\ UNCHANGED <<enabled, cfgState, handle, configured, nreconf, stores, joined, cur, timer,
                   clock, ntests, nextId, delivered, built, rpc, nreports, pre, failedAt,
                   file, stream>>

\* a write-back that the store refuses, after which the handler reads again
StatsSetItemRetry(w) ==
    /\ pc[w] = "set"
    /\ pc' = [pc EXCEPT ![w] = "get"]
    /\ UNCHANGED <<enabled, cfgState, handle, configured, nreconf, stores, joined, cur, timer,
                   clock, ntests, nextId, delivered, built, rpc, nreports, pre, failedAt,
                   file, stream>>

\* self.stats[key] += 1, second half: self.stats[key] = tmp + 1
StatsSetItem(w) ==
    /\ pc[w] = "set"
    /\ stores' = [stores EXCEPT ![handle[w]].stats =
                      SetItem(@, cur[w].key, cur[w].tmp + 1)]
    /\ pc' = [pc EXCEPT ![w] = "started"]
    /\ UNCHANGED <<enabled, cfgState, handle, configured, nreconf, joined, cur, timer, clock,
                   ntests, nextId, delivered, built, rpc, nreports, pre, failedAt, file,
                   stream>>

\* started is taken from the timer or read from time(), in the worker's own
\* process and before the append request is sent
ReadStarted(w) ==
    /\ pc[w] = "started"
    /\ cur' = [cur EXCEPT ![w].started = Started(w)]
    /\ pc' = [pc EXCEPT ![w] = "append"]
    /\ UNCHANGED <<enabled, cfgState, handle, configured, nreconf, stores, joined, timer, clock,
                   ntests, nextId, delivered, built, rpc, nreports, pre, failedAt, file,
                   stream>>

\* the manager serves self.errorlist.append(fragment), the fragment having
\* been built from the locals of the call; the handler returns
ErrorlistAppend(w) ==
    /\ pc[w] = "append"
    /\ LET frag == Fragment(cur[w].id, cur[w].type, cur[w].exc, cur[w].taken,
                            cur[w].started) IN
       /\ stores' = [stores EXCEPT ![handle[w]].errorlist = ListAppend(@, frag)]
       /\ built' = [built EXCEPT ![w] = Append(@, frag)]
    /\ pc' = [pc EXCEPT ![w] = "idle"]
    /\ cur' = [cur EXCEPT ![w] = NoCall]
    /\ UNCHANGED <<enabled, cfgState, handle, configured, nreconf, joined, timer, clock, ntests, nextId,
                   delivered, rpc, nreports, pre, failedAt, file, stream>>

(***************************************************************************)
(* report(), run by the coordinating process once every worker is joined   *)
(***************************************************************************)
Quiescent == joined

ReportCallable ==
    /\ handle[0] # 0
    /\ Quiescent
    /\ rpc \in {"idle", "done"}
    /\ nreports < MaxReports

\* a report() that adds the counters to the total an earlier report() stored
StatsWithTotalAccum(d) ==
    LET e == SetItem(d, "encoding", encoding)
        t == GetItem(e, "errors") + GetItem(e, "failures")
             + GetItem(e, "passes") + GetItem(e, "skipped")
    IN  SetItem(e, "total", IF "total" \in DOMAIN d THEN GetItem(d, "total") + t ELSE t)

\* a report() that also stores the total under the errors key
StatsWithTotalClobber(d) ==
    LET e == SetItem(d, "encoding", encoding)
        t == GetItem(e, "errors") + GetItem(e, "failures")
             + GetItem(e, "passes") + GetItem(e, "skipped")
    IN  SetItem(SetItem(e, "total", t), "errors", t)

\* self.stats['encoding'] = ...; self.stats['total'] = errors + failures + passes + skipped
StatsWithTotal(d) ==
    LET e == SetItem(d, "encoding", encoding) IN
    SetItem(e, "total", GetItem(e, "errors") + GetItem(e, "failures")
                        + GetItem(e, "passes") + GetItem(e, "skipped"))

\* codecs.open(self.error_report_filename, 'w', ...) succeeds: the file is
\* created or truncated
ReportOpen ==
    /\ ReportCallable
    /\ pre' = [stores |-> stores, file |-> file, stream |-> stream]
    /\ nreports' = nreports + 1
    /\ failedAt' = "none"
    /\ file' = [open |-> TRUE, header |-> <<>>, body |-> <<>>, closing |-> FALSE]
    /\ rpc' = "stats"
    /\ UNCHANGED <<enabled, cfgState, handle, configured, nreconf, stores, joined, pc, cur, timer,
                   clock, ntests, nextId, delivered, built, stream>>

\* a report() that opens the file only after it has stored encoding and total
ReportOpenFailLate ==
    /\ ReportCallable
    /\ pre' = [stores |-> stores, file |-> file, stream |-> stream]
    /\ nreports' = nreports + 1
    /\ failedAt' = "open"
    /\ rpc' = "raised"
    /\ stores' = [stores EXCEPT ![handle[0]].stats = StatsWithTotal(@)]
    /\ UNCHANGED <<enabled, cfgState, handle, configured, nreconf, joined, pc, cur,
                   timer, clock, ntests, nextId, delivered, built, file, stream>>

\* codecs.open raises: report() is left at its first statement
ReportOpenFail ==
    /\ ReportCallable
    /\ pre' = [stores |-> stores, file |-> file, stream |-> stream]
    /\ nreports' = nreports + 1
    /\ failedAt' = "open"
    /\ rpc' = "raised"
    /\ UNCHANGED <<enabled, cfgState, handle, configured, nreconf, stores, joined, pc, cur, timer,
                   clock, ntests, nextId, delivered, built, file, stream>>

ReportStats ==
    /\ rpc = "stats"
    /\ stores' = [stores EXCEPT ![handle[0]].stats = StatsWithTotal(@)]
    /\ rpc' = "header"
    /\ UNCHANGED <<enabled, cfgState, handle, configured, nreconf, joined, pc, cur, timer, clock,
                   ntests, nextId, delivered, built, nreports, pre, failedAt, file, stream>>

\* a header whose skip attribute is filled from the errors counter
HeaderSkipFromErrors(d) ==
    [encoding |-> GetItem(d, "encoding"), tests |-> GetItem(d, "total"),
     errors |-> GetItem(d, "errors"), failures |-> GetItem(d, "failures"),
     skip |-> GetItem(d, "errors")]

\* the prologue and the <testsuite ...> tag, formatted from self.stats
Header(d) ==
    [encoding |-> GetItem(d, "encoding"), tests |-> GetItem(d, "total"),
     errors |-> GetItem(d, "errors"), failures |-> GetItem(d, "failures"),
     skip |-> GetItem(d, "skipped")]

ReportHeader ==
    /\ rpc = "header"
    /\ file' = [file EXCEPT !.header = <<Header(stores[handle[0]].stats)>>]
    /\ rpc' = "body"
    /\ UNCHANGED <<enabled, cfgState, handle, configured, nreconf, stores, joined, pc, cur, timer,
                   clock, ntests, nextId, delivered, built, nreports, pre, failedAt, stream>>

\* u''.join([force_unicode(error) for error in self.errorlist]); the fragments
\* are text already, which force_unicode returns as it is
ReportBody ==
    /\ rpc = "body"
    /\ file' = [file EXCEPT !.body = stores[handle[0]].errorlist]
    /\ rpc' = "closing"
    /\ UNCHANGED <<enabled, cfgState, handle, configured, nreconf, stores, joined, pc, cur, timer,
                   clock, ntests, nextId, delivered, built, nreports, pre, failedAt, stream>>

\* write(u'</testsuite>')
ReportClosingTag ==
    /\ rpc = "closing"
    /\ file' = [file EXCEPT !.closing = TRUE]
    /\ rpc' = "close"
    /\ UNCHANGED <<enabled, cfgState, handle, configured, nreconf, stores, joined, pc, cur, timer,
                   clock, ntests, nextId, delivered, built, nreports, pre, failedAt, stream>>

\* self.error_report_file.close()
ReportClose ==
    /\ rpc = "close"
    /\ file' = [file EXCEPT !.open = FALSE]
    /\ rpc' = "echo"
    /\ UNCHANGED <<enabled, cfgState, handle, configured, nreconf, stores, joined, pc, cur, timer,
                   clock, ntests, nextId, delivered, built, nreports, pre, failedAt, stream>>

\* if self.config.verbosity > 1: two lines on the stream; report() returns
ReportEcho ==
    /\ rpc = "echo"
    /\ \E v \in Verbosities :
          stream' = IF v > 1 THEN stream \o <<"----", "XML">> ELSE stream
    /\ rpc' = "done"
    /\ UNCHANGED <<enabled, cfgState, handle, configured, nreconf, stores, joined, pc, cur, timer,
                   clock, ntests, nextId, delivered, built, nreports, pre, failedAt, file>>

\* a write to, or the close of, the destination file raises: the exception
\* leaves report(), which has no handler for it.  After a write that raised
\* the file object is still open; after a close() that raised it is closed.
\* file holds what report() has written to the file object
ReportIOError ==
    /\ rpc \in {"header", "body", "closing", "close"}
    /\ failedAt' = rpc
    /\ rpc' = "raised"
    /\ file' = IF rpc = "close" THEN [file EXCEPT !.open = FALSE] ELSE file
    /\ UNCHANGED <<enabled, cfgState, handle, configured, nreconf, stores, joined, pc, cur, timer,
                   clock, ntests, nextId, delivered, built, nreports, pre, stream>>

(***************************************************************************)
(* The system                                                              *)
(***************************************************************************)
Next ==
    \/ \E p \in Procs : Configure(p)
    \/ Join
    \/ \E w \in Workers : addSuccess(w)
    \/ \E w \in Workers : addFailure(w)
    \/ \E w \in Workers : addError(w)
    \/ \E w \in Workers : StatsGetItem(w)
    \/ \E w \in Workers : StatsSetItem(w)
    \/ \E w \in Workers : ReadStarted(w)
    \/ \E w \in Workers : ErrorlistAppend(w)
    \/ ReportOpen
    \/ ReportOpenFail
    \/ ReportStats
    \/ ReportHeader
    \/ ReportBody
    \/ ReportClosingTag
    \/ ReportClose
    \/ ReportEcho
    \/ ReportIOError

\* the run as the store sees it: no timer is recorded and the clock stands still
Spec == Init /\ [][Next]_vars

\* the same, with a longer run
SpecLong == InitLong /\ [][Next]_vars

\* the longer run on a single worker process
SpecSingle == InitSingle /\ [][Next]_vars

\* the same run with time passing and the engine recording timers
NextTimed ==
    \/ Next
    \/ Tick
    \/ \E w \in Workers : BeforeTest(w)

SpecTimed == InitTimed /\ [][NextTimed]_vars

\* the first configure() of process p, which the engine runs when it loads
\* the plugin in that process
FirstConfigure(p) == ~configured[p] /\ Configure(p)

\* what the processes are scheduled to do: each process is configured, a
\* proxy request that was issued is served and returns, the workers are
\* joined once they are idle, and a statement of report() that does not
\* raise is followed by the next one.  That a handler or report() is called,
\* and that a file operation raises, is left to the engine and the file system.
Fairness ==
    /\ \A p \in Procs : WF_vars(FirstConfigure(p))
    /\ WF_vars(Join)
    /\ \A w \in Workers :
          /\ WF_vars(StatsGetItem(w))
          /\ WF_vars(StatsSetItem(w))
          /\ WF_vars(ReadStarted(w))
          /\ WF_vars(ErrorlistAppend(w))
    /\ WF_vars(ReportStats)
    /\ WF_vars(ReportHeader)
    /\ WF_vars(ReportBody)
    /\ WF_vars(ReportClosingTag)
    /\ WF_vars(ReportClose)
    /\ WF_vars(ReportEcho)

\* the run of Spec under that scheduling
SpecFair == Init /\ [][Next]_vars /\ Fairness

(***************************************************************************)
(* Properties                                                              *)
(***************************************************************************)
\* the store the coordinating process reports from
Shared == stores[handle[0]]

\* the counter a delivered outcome is to be counted under
CounterOf(d) ==
    CASE d.handler = "addSuccess" -> "passes"
      [] d.handler = "addFailure" -> "failures"
      [] d.handler = "addError" ->
             IF d.exc \in {"SkipTest", "SkipTestSubclass"} THEN "skipped" ELSE "errors"

\* the handler calls delivered so far that increment counter k
CallsOn(k) == {i \in 1 .. Len(delivered) : CounterOf(delivered[i]) = k}

CounterSum(d) == d["errors"] + d["failures"] + d["passes"] + d["skipped"]

AllReturned == \A w \in Workers : pc[w] \in {"idle", "absent"}

\* the handler call for test i has returned
Returned(i) == cur[delivered[i].worker].id # i

\* report() has written the header and has not raised
HeaderWritten == rpc \in {"body", "closing", "close", "echo", "done"}

\* report() has written the fragments and has not raised
BodyWritten == rpc \in {"closing", "close", "echo", "done"}

\* C1: once every handler call has returned, each of the four counters equals
\* the number of handler calls that incremented it (no update is lost).
C1_NoLostUpdate ==
    (handle[0] # 0 /\ AllReturned) =>
        \A k \in CounterKeys : Shared.stats[k] = Cardinality(CallsOn(k))

\* C2: when report() runs after all workers have finished, the tests value of
\* the header is the number T of tests delivered, and the four counters
\* report() read sum to T.
C2_ReportCountsAllTests ==
    HeaderWritten =>
        /\ file.header[1].tests = Len(delivered)
        /\ CounterSum(Shared.stats) = Len(delivered)

\* C4: once all workers have quiesced, the sum of the four counters equals
\* the number of fragments in the shared list.
C4_QuiescentSumEqualsFragments ==
    (handle[0] # 0 /\ Quiescent) =>
        CounterSum(Shared.stats) = Len(Shared.errorlist)

\* C5: no step makes the stored value of a counter smaller than it was.
C5_CountersMonotonic ==
    [][\A i \in 1 .. Len(stores) : \A k \in CounterKeys :
           stores'[i].stats[k] >= stores[i].stats[k]]_vars

\* the fragments of list l that come from worker w, in list order
FragmentsOf(l, w) ==
    LET FromW(f) == delivered[f.id].worker = w IN SelectSeq(l, FromW)

\* C3: every handler call that has returned has added exactly one fragment to
\* the shared list, equal to the fragment its worker built; the list holds
\* nothing else; and the report body is exactly the list.
C3_FragmentsPreserved ==
    handle[0] # 0 =>
        LET l == Shared.errorlist IN
        /\ Len(l) = Cardinality({i \in 1 .. Len(delivered) : Returned(i)})
        /\ \A i \in 1 .. Len(delivered) : Returned(i) =>
               /\ Cardinality({j \in 1 .. Len(l) : l[j].id = i}) = 1
               /\ \E j \in 1 .. Len(l) :
                      /\ l[j].id = i
                      /\ \E n \in 1 .. Len(built[delivered[i].worker]) :
                             built[delivered[i].worker][n] = l[j]
        /\ BodyWritten => file.body = l

C3_Witness ==
    /\ rpc = "done"
    /\ Len(file.body) >= 2
    /\ \A w \in Workers : built[w] # <<>>

\* C6: in the shared list, and in the report body, the fragments of each
\* worker appear in the order in which that worker emitted them.
C6_WorkerOrderPreserved ==
    handle[0] # 0 =>
        \A w \in Workers :
            /\ FragmentsOf(Shared.errorlist, w) = built[w]
            /\ \A a, b \in 1 .. Len(built[w]) : a < b => built[w][a].id < built[w][b].id
            /\ BodyWritten => FragmentsOf(file.body, w) = built[w]

C6_Witness ==
    /\ BodyWritten
    /\ \E a, b, c \in 1 .. Len(file.body) :
          /\ a < b /\ b < c
          /\ delivered[file.body[a].id].worker = delivered[file.body[c].id].worker
          /\ delivered[file.body[b].id].worker # delivered[file.body[a].id].worker

\* C7 as stated: a call to report() leaves the shared counter map (keys and
\* values) and the shared fragment list exactly as they were before the call.
C7_ReportLeavesStoreUnchanged ==
    rpc = "done" =>
        /\ Shared.errorlist = pre.stores[handle[0]].errorlist
        /\ DOMAIN Shared.stats = DOMAIN pre.stores[handle[0]].stats
        /\ \A k \in CounterKeys : Shared.stats[k] = pre.stores[handle[0]].stats[k]

\* C7 amended: during and after report() the four counters and the fragment
\* list are as they were before the call; the only writes report() makes to
\* the shared map are the keys encoding and total, total being the sum of the
\* four counters.
C7_ReportKeepsCountersAndList ==
    rpc # "idle" =>
        /\ Len(stores) = Len(pre.stores)
        /\ \A i \in 1 .. Len(stores) :
              /\ stores[i].errorlist = pre.stores[i].errorlist
              /\ \A k \in CounterKeys : stores[i].stats[k] = pre.stores[i].stats[k]
              /\ DOMAIN stores[i].stats \subseteq CounterKeys \cup {"encoding", "total"}
        /\ rpc \in {"header", "body", "closing", "close", "echo", "done"} =>
              /\ DOMAIN Shared.stats = CounterKeys \cup {"encoding", "total"}
              /\ Shared.stats["encoding"] = encoding
              /\ Shared.stats["total"] = CounterSum(Shared.stats)

C7_Witness ==
    /\ rpc = "done"
    /\ Len(Shared.errorlist) >= 2
    /\ "total" \in DOMAIN Shared.stats
    /\ "total" \notin DOMAIN pre.stores[handle[0]].stats

\* a step of configure()
ConfigureStep == configured' # configured \/ nreconf' # nreconf

\* C8: with the plugin enabled, configure() allocates a store only when none
\* is published, with all four counters 0 and an empty list; every other
\* configure() leaves the stores as they are; so at most one store exists and
\* every configured instance and every config slot refers to it.
C8_ConfigureIdempotent ==
    /\ [](/\ Len(stores) <= 1
          /\ \A p \in Procs :
                /\ handle[p] \in {0, 1} /\ cfgState[p] \in {0, 1}
                /\ (enabled /\ configured[p]) => (handle[p] = 1 /\ cfgState[p] = 1))
    /\ [][(enabled /\ ConfigureStep) =>
             stores' = IF stores = <<>>
                       THEN <<[stats |-> [k \in CounterKeys |-> 0], errorlist |-> <<>>]>>
                       ELSE stores]_vars

C8_Witness ==
    /\ nreconf = 1
    /\ \A p \in Procs : configured[p] /\ handle[p] = 1
    /\ Len(stores) = 1
    /\ \E w \in Workers : built[w] = <<>>
    /\ ~joined
    /\ Len(Shared.errorlist) >= 1

\* C9: an addError call whose exception is SkipTest or a subclass increments
\* skipped (it reads skipped and writes back the value read plus one), leaves
\* errors alone, and its fragment has a skipped child, not an error or
\* failure child; an addError call with any other exception increments errors
\* in the same way, leaves skipped alone, and its fragment has an error child.
C9_SkipReclassified ==
    /\ [](handle[0] # 0 =>
            \A j \in 1 .. Len(Shared.errorlist) :
                LET f == Shared.errorlist[j]
                    d == delivered[f.id]
                IN  d.handler = "addError" =>
                        IF d.exc \in {"SkipTest", "SkipTestSubclass"}
                        THEN f.type = "skipped"
                        ELSE f.type = "error")
    /\ [][\A w \in Workers :
             LET old == stores[handle[w]].stats
                 new == stores'[handle[w]].stats
                 hit == IF cur[w].exc \in {"SkipTest", "SkipTestSubclass"}
                        THEN "skipped" ELSE "errors"
             IN  /\ (pc[w] = "get" /\ pc'[w] = "set" /\ cur[w].handler = "addError") =>
                        cur'[w].tmp = old[hit]
                 /\ (pc[w] = "set" /\ pc'[w] = "started" /\ cur[w].handler = "addError") =>
                        /\ new[hit] = cur[w].tmp + 1
                        /\ \A k \in CounterKeys \ {hit} : new[k] = old[k]]_vars

C9_Witness ==
    /\ handle[0] # 0
    /\ \E i, j \in 1 .. Len(Shared.errorlist) :
          /\ delivered[Shared.errorlist[i].id].exc = "SkipTestSubclass"
          /\ Shared.errorlist[i].type = "skipped"
          /\ delivered[Shared.errorlist[j].id].exc = "ValueError"
          /\ Shared.errorlist[j].type = "error"
    /\ Shared.stats["skipped"] = 1
    /\ Shared.stats["errors"] = 1

\* C10: report() has raised exactly when a statement of it failed; it then
\* has echoed nothing; and when the open failed, the file and every store
\* are as they were before the call.
C10_IOErrorPropagates ==
    /\ (failedAt # "none") <=> (rpc = "raised")
    /\ rpc = "raised" => stream = pre.stream
    /\ failedAt = "open" =>
          /\ file = pre.file
          /\ Len(stores) = Len(pre.stores)
          /\ \A i \in 1 .. Len(stores) :
                /\ stores[i].errorlist = pre.stores[i].errorlist
                /\ DOMAIN stores[i].stats = DOMAIN pre.stores[i].stats
                /\ \A k \in CounterKeys : stores[i].stats[k] = pre.stores[i].stats[k]

C10_Witness ==
    /\ rpc = "raised"
    /\ failedAt = "open"
    /\ nreports = 2
    /\ file.closing /\ ~file.open
    /\ Len(file.body) >= 1

\* C11: in a run with a single worker, the header report() writes carries
\* tests = p+f+e+s, errors = e, failures = f and skip = s, and the passes
\* counter is p, where p, f, e and s are the numbers of successes, failures,
\* non-skip errors and skip signals delivered.
C11_SingleWorkerHeader ==
    HeaderWritten =>
        LET h == file.header[1] IN
        /\ h.tests = Len(delivered)
        /\ h.errors = Cardinality(CallsOn("errors"))
        /\ h.failures = Cardinality(CallsOn("failures"))
        /\ h.skip = Cardinality(CallsOn("skipped"))
        /\ Shared.stats["passes"] = Cardinality(CallsOn("passes"))

C11_Witness ==
    /\ HeaderWritten
    /\ file.header[1] = [encoding |-> "UTF-8", tests |-> 3, errors |-> 0,
                         failures |-> 1, skip |-> 1]
    /\ Shared.stats["passes"] = 1
    /\ \E i \in 1 .. Len(delivered) :
          delivered[i].handler = "addError" /\ delivered[i].exc = "SkipTest"

\* the counter a call of the handler is to add 1 to
HandlerKeys(handler) ==
    IF handler = "addSuccess" THEN {"passes"}
    ELSE IF handler = "addFailure" THEN {"failures"}
    ELSE {"skipped", "errors"}

\* C12: a handler call adds 1 to the one counter of its outcome, writes none
\* of the other three counters, appends one fragment at the end of the list
\* and leaves the fragments already in the list unchanged.
C12_HandlerFrame ==
    [][\A w \in Workers :
           LET old == stores[handle[w]]
               new == stores'[handle[w]]
               key == cur[w].key
           IN  /\ (pc[w] = "idle" /\ pc'[w] = "get") => new = old
               /\ (pc[w] = "get" /\ pc'[w] = "set") => new = old
               /\ (pc[w] = "started" /\ pc'[w] = "append") => new = old
               /\ (pc[w] = "set" /\ pc'[w] = "started") =>
                      /\ key \in HandlerKeys(cur[w].handler)
                      /\ new.stats[key] = old.stats[key] + 1
                      /\ \A k \in CounterKeys \ {key} : new.stats[k] = old.stats[k]
                      /\ new.errorlist = old.errorlist
               /\ (pc[w] = "append" /\ pc'[w] = "idle") =>
                      /\ new.stats = old.stats
                      /\ Len(new.errorlist) = Len(old.errorlist) + 1
                      /\ SubSeq(new.errorlist, 1, Len(old.errorlist)) = old.errorlist
                      /\ new.errorlist[Len(new.errorlist)].id = cur[w].id]_vars

\* C13: once report() has written the header and the fragments, the tests
\* value of the header is the sum of its errors, failures and skip values and
\* the passes counter, and the number of fragments written is that value.
C13_HeaderConsistent ==
    BodyWritten =>
        LET h == file.header[1] IN
        /\ h.tests = h.errors + h.failures + h.skip + Shared.stats["passes"]
        /\ Len(file.body) = h.tests

\* worker w is inside a handler call
InHandler(w) == pc[w] \in {"get", "set", "started", "append"}

\* C14: under weak fairness every started handler call returns, the workers
\* reach quiescence, and a report() that was invoked completes with the
\* closing tag written.
C14_NoOperationBlocks ==
    /\ \A w \in Workers : InHandler(w) ~> (pc[w] = "idle")
    /\ <>Quiescent
    /\ (rpc \notin {"idle", "done"}) ~> (rpc = "done" /\ file.closing)

\* C14, amended: under weak fairness every started handler call returns, the
\* workers reach quiescence, and a report() that was invoked either completes
\* with the closing tag written and the file closed, or raises the error of
\* the file operation that failed; a report() that has returned has written
\* the closing tag.
C14_ReturnsOrRaises ==
    /\ \A w \in Workers : InHandler(w) ~> (pc[w] = "idle")
    /\ <>Quiescent
    /\ (rpc \notin {"idle", "done", "raised"}) ~>
           ((rpc = "done" /\ file.closing /\ ~file.open) \/ rpc = "raised")
    /\ [](rpc = "done" => (file.closing /\ ~file.open))

C14_Witness ==
    /\ Quiescent
    /\ \A w \in Workers : pc[w] = "idle" /\ Len(built[w]) >= 1
    /\ rpc = "done"
    /\ file.closing
    /\ Len(file.body) = NumWorkers

\* C15: in a run with a single worker, the counters of a store sum to the
\* number of its fragments or to one more, and to one more exactly while the
\* worker's handler call is between its increment and its append.
C15_IncrementBeforeAppend ==
    \A i \in 1 .. Len(stores) :
        LET diff == CounterSum(stores[i].stats) - Len(stores[i].errorlist) IN
        /\ 0 <= diff
        /\ diff <= 1
        /\ diff = 1 <=> (handle[1] = i /\ pc[1] \in {"started", "append"})

C15_Witness ==
    /\ pc[1] = "append"
    /\ Len(stores[handle[1]].errorlist) >= 1
    /\ CounterSum(stores[handle[1]].stats) = Len(stores[handle[1]].errorlist) + 1

\* the document a file holds
Document(f) == [header |-> f.header, body |-> f.body, closing |-> f.closing]

\* C16: when report() has completed and is called again, with no handler call
\* in between, the second call writes the document the first one wrote.
C16_ReportIdempotent ==
    (nreports >= 2 /\ rpc = "done" /\ pre.file.closing) =>
        Document(file) = Document(pre.file)

C16_Witness ==
    /\ nreports >= 2
    /\ rpc = "done"
    /\ pre.file.closing
    /\ Len(file.body) >= 1
    /\ file.header[1].tests >= 1
    /\ pre.stores[handle[0]].stats["total"] >= 1

\* C17: the start a handler uses is the recorded timer when there is one and
\* otherwise the time it reads during the call, which is not before the call
\* was entered; the fragment it appends carries that start, and ends at
\* start + elapsed, where elapsed is the time from the timer to the entry of
\* the call, or 0 without a timer.
C17_StartAndEnd ==
    [][\A w \in Workers :
           /\ (pc[w] = "started" /\ pc'[w] = "append") =>
                  IF timer[w] # NoTimer
                  THEN /\ cur'[w].started = timer[w]
                       /\ cur[w].taken = cur[w].at - timer[w]
                  ELSE /\ cur'[w].started = clock
                       /\ cur[w].at <= clock
                       /\ cur[w].taken = 0
           /\ (pc[w] = "append" /\ pc'[w] = "idle") =>
                  LET l == stores'[handle[w]].errorlist
                      f == l[Len(l)]
                  IN  /\ f.taken = cur[w].taken
                      /\ f.started = StrfTime(cur[w].started)
                      /\ f.ended = StrfTime(cur[w].started + cur[w].taken)
                      /\ cur[w].started <= clock]_vars

C17_Witness ==
    /\ handle[0] # 0
    /\ \E j \in 1 .. Len(Shared.errorlist) :
          LET f == Shared.errorlist[j] IN
          /\ timer[delivered[f.id].worker] = NoTimer
          /\ f.started = 1
          /\ f.ended = 1
          /\ f.taken = 0

====
